---- MODULE Spec2Model ----
(***************************************************************************)
(* ObjectEncoder (src/json/object_encoder_test.py): a json.JSONEncoder     *)
(* subclass whose default() turns values the JSON writer cannot express    *)
(* into JSON-representable ones through an ordered chain of type checks.   *)
(*                                                                         *)
(* A Python value is a record                                              *)
(*   cls        type(obj).__name__                                         *)
(*   types      the type identities T with isinstance(obj, T)              *)
(*   isoformat  hasattr(obj, 'isoformat')                                  *)
(*   isnull     pd.isnull(obj)                                             *)
(*   hasDict    hasattr(obj, '__dict__')                                   *)
(*   classDict  obj.__class__.__dict__ as an ordered list of entries       *)
(*   dict       obj.__dict__ as an ordered list of entries                 *)
(* An attribute name is the sequence of its characters, an attribute value *)
(* a record [t, s, n]: t its kind, s its text, n its number or the heap    *)
(* address of the object it refers to.                                     *)
(***************************************************************************)
EXTENDS Integers, Sequences, FiniteSets, TLC

VARIABLES
    class_skip_types,   \* ObjectEncoder.skip_types, the class attribute
    encoders,           \* the ObjectEncoder instances constructed so far
    pc,                 \* where the caller is: "idle", "default", "dumps", "done"
    call,               \* the default() calls made and not yet forgotten: [enc, self, obj, ret]
    heap,               \* the objects json.dumps walks, by address
    frames,             \* the writer's recursion stack: [addr, pending] per object being encoded
    markers,            \* the writer's markers (ids of objects being encoded)
    outcome,            \* how the json.dumps call ended
    writer,             \* << >> or the encoder json.dumps constructed: [self, check_circular, root, out, again]
    param,              \* the click parameter object constructed
    result,             \* the calls made on it: [input, outcome, ...]
    collection,         \* the MongoDB collection the handlers share
    handlers,           \* the MongoHandler instances and where each is in emit()
    audit               \* what happened so far: records inserted, handleError calls, replies

encoder_vars == <<class_skip_types, encoders, pc, call, heap, frames, markers, outcome, writer>>
click_vars == <<param, result>>
mongo_vars == <<collection, handlers, audit>>

vars == <<class_skip_types, encoders, pc, call, heap, frames, markers, outcome, writer,
          param, result, collection, handlers, audit>>

\* no click parameter and no collection are in play
NoClick == param = << >> /\ result = << >>
NoMongo == collection = << >> /\ handlers = << >> /\ audit = << >>

(***************************************************************************)
(* Bounds of the model.                                                    *)
(***************************************************************************)
MaxEncoders == 2
MaxClassAttrs == 2
MaxInstAttrs == 2
MaxCalls == 3
MaxObjs == 3
RecursionLimit == 2
MaxHandlers == 2
MaxEmits == 3
MaxLimit == 2

(***************************************************************************)
(* Attribute names, as the sequences of their characters.                  *)
(***************************************************************************)
N_isoformat == <<"i", "s", "o", "f", "o", "r", "m", "a", "t">>
N_dict      == <<"_", "_", "d", "i", "c", "t", "_", "_">>
N_class     == <<"_", "_", "c", "l", "a", "s", "s", "_", "_">>
N_module    == <<"_", "_", "m", "o", "d", "u", "l", "e", "_", "_">>
N_doc       == <<"_", "_", "d", "o", "c", "_", "_">>
N_x         == <<"x">>
N_name      == <<"n", "a", "m", "e">>
N_greet     == <<"g", "r", "e", "e", "t">>
N_priv      == <<"_", "_", "p">>
N_dunder    == <<"_", "_">>
N_child     == <<"c", "h", "i", "l", "d">>
N_area      == <<"a", "r", "e", "a">>

(***************************************************************************)
(* Attribute values.                                                       *)
(***************************************************************************)
IntVal(n)  == [t |-> "int", s |-> "", n |-> n]
StrVal(s)  == [t |-> "str", s |-> s, n |-> 0]
FuncVal(s) == [t |-> "function", s |-> s, n |-> 0]
RefVal(a)  == [t |-> "object", s |-> "", n |-> a]
NoneVal    == [t |-> "None", s |-> "", n |-> 0]
\* a property of the class: its getter returns n, or raises exc when exc is
\* not empty
PropVal(exc, n) == [t |-> "property", s |-> exc, n |-> n]
\* the exception a lookup ends in, in the place of its value
Raised(exc) == [t |-> "raise", s |-> exc, n |-> 0]

Entry(k, v) == [key |-> k, value |-> v]

\* str.startswith / str.endswith
startswith(key, prefix) ==
    /\ Len(key) >= Len(prefix)
    /\ SubSeq(key, 1, Len(prefix)) = prefix

endswith(key, suffix) ==
    /\ Len(key) >= Len(suffix)
    /\ SubSeq(key, Len(key) - Len(suffix) + 1, Len(key)) = suffix

\* callable(value): functions and bound methods are; numbers, strings, None
\* and plain instances are not
callable(value) == value.t = "function"

(***************************************************************************)
(* Ordered mappings (Python dict): lists of entries with distinct keys.    *)
(***************************************************************************)
Keys(d) == {d[i].key : i \in 1..Len(d)}

Lookup(d, k) == d[CHOOSE i \in 1..Len(d) : d[i].key = k].value

\* d[k] = v : an existing key keeps its place, a new key goes last
SetItem(d, k, v) ==
    IF k \in Keys(d)
    THEN [i \in 1..Len(d) |-> IF d[i].key = k THEN Entry(k, v) ELSE d[i]]
    ELSE Append(d, Entry(k, v))

\* d.update(e)
RECURSIVE update(_, _)
update(d, e) ==
    IF e = << >> THEN d
    ELSE update(SetItem(d, Head(e).key, Head(e).value), Tail(e))

(***************************************************************************)
(* Type identities.                                                        *)
(***************************************************************************)
\* the baseline without the built-in function and method types
skip_types_no_builtins ==
    {"classmethod", "staticmethod", "property",
     "Series", "DataFrame", "Index",
     "partial",
     "Logger", "RootLogger"}

\* the baseline with class objects suppressed too
skip_types_with_type ==
    {"type",
     "classmethod", "staticmethod", "property",
     "BuiltinFunctionType", "BuiltinMethodType",
     "Series", "DataFrame", "Index",
     "partial",
     "Logger", "RootLogger"}

\* ObjectEncoder.skip_types as the class statement sets it
skip_types ==
    {"classmethod", "staticmethod", "property",
     "BuiltinFunctionType", "BuiltinMethodType",
     "Series", "DataFrame", "Index",
     "partial",
     "Logger", "RootLogger"}

TypeSetTypes == {"type", "set", "frozenset"}

MongoTypes == {"MongoClient", "Database", "Collection"}

NumpyIntTypes ==
    {"np.int_", "np.intc", "np.intp", "np.int8", "np.int16", "np.int32", "np.int64",
     "np.uint8", "np.uint16", "np.uint32", "np.uint64"}

NumpyFloatTypes == {"np.float_", "np.float16", "np.float32", "np.float64"}

BuiltinTypes == {"BuiltinFunctionType", "BuiltinMethodType"}

\* isinstance(obj, tuple_of_types)
isinstance(obj, ts) == obj.types \cap ts # {}

_is_mongo_object(obj) == isinstance(obj, MongoTypes)

\* the getter of a property runs: its value, or the exception it raises
fget(prop) == IF prop.s # "" THEN Raised(prop.s) ELSE IntVal(prop.n)

\* a lookup in which the class entry shadows the instance entry
getattr_class_first(obj, key) ==
    IF key \in Keys(obj.classDict)
    THEN IF Lookup(obj.classDict, key).t = "property"
         THEN fget(Lookup(obj.classDict, key))
         ELSE Lookup(obj.classDict, key)
    ELSE Lookup(obj.dict, key)

\* getattr(obj, key) for a key of the instance or class namespace: a
\* property of the class (a data descriptor) runs its getter; otherwise the
\* instance entry shadows the class entry
getattr(obj, key) ==
    IF key \in Keys(obj.classDict) /\ Lookup(obj.classDict, key).t = "property"
    THEN fget(Lookup(obj.classDict, key))
    ELSE IF key \in Keys(obj.dict) THEN Lookup(obj.dict, key)
    ELSE Lookup(obj.classDict, key)

(***************************************************************************)
(* What default() does: [outcome, op, map, errType, errAttr, reads, self,  *)
(* obj].                                                                   *)
(*   outcome  "return" or "raise"                                          *)
(*   op       the expression whose value is returned, or the exception     *)
(*   map      the mapping returned (vars(obj) or a_dict), else empty       *)
(*   errType  the type name the exception message carries                  *)
(*   errAttr  the attribute name the exception carries                     *)
(*   reads    the attribute names of obj the call looked up                *)
(*   self     self.skip_types when the call ends                           *)
(*   obj      the argument when the call ends                              *)
(***************************************************************************)
Return(self, obj, op, map, reads) ==
    [outcome |-> "return", op |-> op, map |-> map, errType |-> "",
     errAttr |-> << >>, reads |-> reads, self |-> self, obj |-> obj]

Raise(self, obj, op, errType, reads) ==
    [outcome |-> "raise", op |-> op, map |-> << >>, errType |-> errType,
     errAttr |-> << >>, reads |-> reads, self |-> self, obj |-> obj]

\* a failure path that coerces to None instead of raising
super_default_null(self, obj, reads) ==
    Return(self, obj, "None", << >>, reads)

\* a failure path that also registers the type as suppressed
super_default_registers(self, obj, reads) ==
    Raise(self \cup {obj.cls}, obj, "TypeError", obj.cls, reads)

\* json.JSONEncoder.default(obj): TypeError("Object of type <name> is not
\* JSON serializable")
super_default(self, obj, reads) ==
    Raise(self, obj, "TypeError", obj.cls, reads)

\* the loop without the callable(value) test
RECURSIVE reflect_loop_keep_callables(_, _, _)
reflect_loop_keep_callables(obj, keys, a_dict) ==
    IF keys = << >> THEN [exc |-> "", key |-> << >>, a_dict |-> a_dict]
    ELSE LET key   == Head(keys).key
             value == getattr(obj, key)
         IN  IF value.t = "raise" THEN [exc |-> value.s, key |-> key, a_dict |-> a_dict]
             ELSE IF startswith(key, N_dunder) /\ endswith(key, N_dunder)
             THEN reflect_loop_keep_callables(obj, Tail(keys), a_dict)
             ELSE reflect_loop_keep_callables(obj, Tail(keys), SetItem(a_dict, key, value))

\* the loop of the __dict__ branch: one pass over obj_class_dict.keys();
\* it ends early, at key, when getattr(obj, key) raises exc
RECURSIVE reflect_loop(_, _, _)
reflect_loop(obj, keys, a_dict) ==
    IF keys = << >> THEN [exc |-> "", key |-> << >>, a_dict |-> a_dict]
    ELSE LET key   == Head(keys).key
             value == getattr(obj, key)
         IN  IF value.t = "raise" THEN [exc |-> value.s, key |-> key, a_dict |-> a_dict]
             ELSE IF (startswith(key, N_dunder) /\ endswith(key, N_dunder)) \/ callable(value)
             THEN reflect_loop(obj, Tail(keys), a_dict)
             ELSE reflect_loop(obj, Tail(keys), SetItem(a_dict, key, value))

\* the __dict__ branch: no try statement surrounds the loop, so the
\* exception of a getter leaves default() as the getter raised it
reflect(self, obj, reads) ==
    LET obj_class_dict == update(obj.classDict, obj.dict)
        loop == reflect_loop(obj, obj_class_dict, << >>)
        last == CHOOSE i \in 1..Len(obj_class_dict) : obj_class_dict[i].key = loop.key
    IN  IF loop.exc # ""
        THEN Raise(self, obj, loop.exc, "",
                   reads \cup {N_class, N_dict}
                         \cup {obj_class_dict[i].key : i \in 1..last})
        ELSE Return(self, obj, "a_dict", loop.a_dict,
                    reads \cup {N_class, N_dict} \cup Keys(obj_class_dict))

\* the isoformat branch with the datastore test ahead of the pd.isnull test
temporal_mongo_first(self, obj, reads) ==
    IF _is_mongo_object(obj) THEN Return(self, obj, "str(obj)", << >>, reads)
    ELSE IF obj.isnull THEN Return(self, obj, "None", << >>, reads)
    ELSE Return(self, obj, "obj.isoformat()", << >>, reads)

\* the isoformat branch
temporal(self, obj, reads) ==
    IF obj.isnull THEN Return(self, obj, "None", << >>, reads)
    ELSE IF ~_is_mongo_object(obj)
         THEN Return(self, obj, "obj.isoformat()", << >>, reads)
         ELSE Return(self, obj, "str(obj)", << >>, reads)

\* default() with the type/set/frozenset check ahead of the skip_types check
default_type_first(self, obj) ==
    IF isinstance(obj, TypeSetTypes) THEN Return(self, obj, "str(obj)", << >>, {})
    ELSE IF isinstance(obj, self) THEN Return(self, obj, "None", << >>, {})
    ELSE IF obj.isoformat THEN temporal(self, obj, {N_isoformat})
    ELSE IF isinstance(obj, NumpyIntTypes)
         THEN Return(self, obj, "int(obj)", << >>, {N_isoformat})
    ELSE IF isinstance(obj, NumpyFloatTypes)
         THEN Return(self, obj, "float(obj)", << >>, {N_isoformat})
    ELSE IF isinstance(obj, {"np.ndarray"})
         THEN Return(self, obj, "obj.tolist()", << >>, {N_isoformat})
    ELSE IF isinstance(obj, BuiltinTypes)
         THEN Return(self, obj, "str(obj)", << >>, {N_isoformat})
    ELSE IF isinstance(obj, {"SimpleNamespace"})
         THEN Return(self, obj, "vars(obj)", obj.dict, {N_isoformat, N_dict})
    ELSE IF isinstance(obj, {"Path"})
         THEN Return(self, obj, "str(obj)", << >>, {N_isoformat})
    ELSE IF isinstance(obj, {"timezone"})
         THEN Return(self, obj, "str(obj)", << >>, {N_isoformat})
    ELSE IF obj.hasDict THEN reflect(self, obj, {N_isoformat, N_dict})
    ELSE super_default(self, obj, {N_isoformat, N_dict})

\* default() with the __dict__ check ahead of the Path and timezone checks
default_dict_early(self, obj) ==
    IF isinstance(obj, self) THEN Return(self, obj, "None", << >>, {})
    ELSE IF isinstance(obj, TypeSetTypes) THEN Return(self, obj, "str(obj)", << >>, {})
    ELSE IF obj.isoformat THEN temporal(self, obj, {N_isoformat})
    ELSE IF isinstance(obj, NumpyIntTypes)
         THEN Return(self, obj, "int(obj)", << >>, {N_isoformat})
    ELSE IF isinstance(obj, NumpyFloatTypes)
         THEN Return(self, obj, "float(obj)", << >>, {N_isoformat})
    ELSE IF isinstance(obj, {"np.ndarray"})
         THEN Return(self, obj, "obj.tolist()", << >>, {N_isoformat})
    ELSE IF isinstance(obj, BuiltinTypes)
         THEN Return(self, obj, "str(obj)", << >>, {N_isoformat})
    ELSE IF isinstance(obj, {"SimpleNamespace"})
         THEN Return(self, obj, "vars(obj)", obj.dict, {N_isoformat, N_dict})
    ELSE IF obj.hasDict THEN reflect(self, obj, {N_isoformat, N_dict})
    ELSE IF isinstance(obj, {"Path"})
         THEN Return(self, obj, "str(obj)", << >>, {N_isoformat})
    ELSE IF isinstance(obj, {"timezone"})
         THEN Return(self, obj, "str(obj)", << >>, {N_isoformat})
    ELSE super_default(self, obj, {N_isoformat, N_dict})

\* ObjectEncoder.default(self, obj); self is self.skip_types
default(self, obj) ==
    IF isinstance(obj, self) THEN Return(self, obj, "None", << >>, {})
    ELSE IF isinstance(obj, TypeSetTypes) THEN Return(self, obj, "str(obj)", << >>, {})
    ELSE IF obj.isoformat THEN temporal(self, obj, {N_isoformat})
    ELSE IF isinstance(obj, NumpyIntTypes)
         THEN Return(self, obj, "int(obj)", << >>, {N_isoformat})
    ELSE IF isinstance(obj, NumpyFloatTypes)
         THEN Return(self, obj, "float(obj)", << >>, {N_isoformat})
    ELSE IF isinstance(obj, {"np.ndarray"})
         THEN Return(self, obj, "obj.tolist()", << >>, {N_isoformat})
    ELSE IF isinstance(obj, BuiltinTypes)
         THEN Return(self, obj, "str(obj)", << >>, {N_isoformat})
    ELSE IF isinstance(obj, {"SimpleNamespace"})
         THEN Return(self, obj, "vars(obj)", obj.dict, {N_isoformat, N_dict})
    ELSE IF isinstance(obj, {"Path"})
         THEN Return(self, obj, "str(obj)", << >>, {N_isoformat})
    ELSE IF isinstance(obj, {"timezone"})
         THEN Return(self, obj, "str(obj)", << >>, {N_isoformat})
    ELSE IF obj.hasDict THEN reflect(self, obj, {N_isoformat, N_dict})
    ELSE super_default(self, obj, {N_isoformat, N_dict})

\* an __init__ that merges the caller's types into the class attribute
__init__shared(cls_skip_types, kw) ==
    [self |-> cls_skip_types \cup kw, cls |-> cls_skip_types \cup kw]

\* ObjectEncoder.__init__(skip_types=kw): the instance attribute it sets and
\* the class attribute it leaves
__init__(cls_skip_types, kw) ==
    [self |-> cls_skip_types \cup kw, cls |-> cls_skip_types]

(***************************************************************************)
(* The values default() is called with: every value is an instance of one  *)
(* or two of the types below (a class and a base or registered type), may  *)
(* expose isoformat, may be null-like, may carry an attribute namespace.   *)
(***************************************************************************)
Tags ==
    <<"property", "BuiltinFunctionType", "type", "set", "np.int32", "np.float64",
      "np.ndarray", "SimpleNamespace", "Path", "timezone", "datetime", "Collection",
      "str", "int", "UserClass">>

\* the types a caller registers (custom_skip of check_instance_creation)
ExtraTypes == {"str", "int"}

SampleClassDict ==
    <<Entry(N_module, StrVal("__main__")), Entry(N_x, IntVal(0)),
      Entry(N_greet, FuncVal("greet")), Entry(N_doc, NoneVal)>>

SampleDict == <<Entry(N_name, StrVal("Bob")), Entry(N_x, IntVal(5))>>

\* a value of class a that is also an instance of b
Value(a, b, iso, null, hd) ==
    [cls |-> a, types |-> {a, b}, isoformat |-> iso, isnull |-> null, hasDict |-> hd,
     classDict |-> IF hd THEN SampleClassDict ELSE << >>,
     dict |-> IF hd THEN SampleDict ELSE << >>]

Values ==
    {Value(Tags[p[1]], Tags[p[2]], iso, null, hd) :
        p \in {q \in (1..Len(Tags)) \X (1..Len(Tags)) : q[1] <= q[2]},
        iso \in BOOLEAN, null \in BOOLEAN, hd \in BOOLEAN}

(***************************************************************************)
(* Constructing encoders and calling default() on them.                    *)
(***************************************************************************)
Init ==
    /\ class_skip_types = skip_types
    /\ encoders = << >>
    /\ pc = "idle"
    /\ call = << >>
    /\ heap = << >>
    /\ frames = << >>
    /\ markers = {}
    /\ outcome = ""
    /\ writer = << >>
    /\ NoClick /\ NoMongo

\* encoder = ObjectEncoder(skip_types=kw)
Construct(kw) ==
    /\ pc = "idle"
    /\ Len(encoders) < MaxEncoders
    /\ LET r == __init__(class_skip_types, kw)
       IN  /\ encoders' = Append(encoders, [skip_types |-> r.self, kw |-> kw])
           /\ class_skip_types' = r.cls
    /\ UNCHANGED <<pc, call, heap, frames, markers, outcome, writer>>
    /\ UNCHANGED <<click_vars, mongo_vars>>

\* encoders[e].default(obj) runs to its end
DefaultCall(e, obj) ==
    /\ pc = "idle"
    /\ LET ret == default(encoders[e].skip_types, obj)
       IN  /\ call' = <<[enc |-> e, self |-> encoders[e].skip_types, obj |-> obj, ret |-> ret]>>
           /\ encoders' = [encoders EXCEPT ![e].skip_types = ret.self]
    /\ pc' = "default"
    /\ UNCHANGED <<class_skip_types, heap, frames, markers, outcome, writer>>
    /\ UNCHANGED <<click_vars, mongo_vars>>

\* the caller takes the result
DefaultReturn ==
    /\ pc = "default"
    /\ pc' = "idle"
    /\ call' = << >>
    /\ UNCHANGED <<class_skip_types, encoders, heap, frames, markers, outcome, writer>>
    /\ UNCHANGED <<click_vars, mongo_vars>>

Next ==
    \/ \E kw \in SUBSET ExtraTypes : Construct(kw)
    \/ \E e \in 1..Len(encoders), obj \in Values : DefaultCall(e, obj)
    \/ DefaultReturn

Spec == Init /\ [][Next]_vars

(***************************************************************************)
(* The dispatch order as the checks are numbered: which check a value      *)
(* satisfies, taken on its own, and what that check alone would give.      *)
(***************************************************************************)
\* the suppression set an encoder is meant to have: baseline and its own types
Suppression(e) == skip_types \cup encoders[e].kw

Checks == 1..12

Satisfies(i, supp, obj) ==
    CASE i = 1  -> obj.types \cap supp # {}
      [] i = 2  -> obj.types \cap {"type", "set", "frozenset"} # {}
      [] i = 3  -> obj.isoformat
      [] i = 4  -> obj.types \cap NumpyIntTypes # {}
      [] i = 5  -> obj.types \cap NumpyFloatTypes # {}
      [] i = 6  -> "np.ndarray" \in obj.types
      [] i = 7  -> obj.types \cap {"BuiltinFunctionType", "BuiltinMethodType"} # {}
      [] i = 8  -> "SimpleNamespace" \in obj.types
      [] i = 9  -> "Path" \in obj.types
      [] i = 10 -> "timezone" \in obj.types
      [] i = 11 -> obj.hasDict
      [] i = 12 -> TRUE

Earliest(supp, obj) ==
    CHOOSE i \in Checks :
        /\ Satisfies(i, supp, obj)
        /\ \A j \in 1..(i - 1) : ~Satisfies(j, supp, obj)

\* the op a check gives by itself
OpOf(i, obj) ==
    CASE i = 1  -> "None"
      [] i = 2  -> "str(obj)"
      [] i = 3  -> IF obj.isnull THEN "None"
                   ELSE IF obj.types \cap MongoTypes # {} THEN "str(obj)"
                   ELSE "obj.isoformat()"
      [] i = 4  -> "int(obj)"
      [] i = 5  -> "float(obj)"
      [] i = 6  -> "obj.tolist()"
      [] i = 7  -> "str(obj)"
      [] i = 8  -> "vars(obj)"
      [] i = 9  -> "str(obj)"
      [] i = 10 -> "str(obj)"
      [] i = 11 -> "a_dict"
      [] i = 12 -> "TypeError"

Called == call # << >>
TheCall == call[Len(call)]

(***************************************************************************)
(* C1: a value whose type is in the encoder's suppression set (baseline or *)
(* registered at construction) makes default() return None whatever its    *)
(* state and whatever other check it would match, and no attribute of the  *)
(* value is read.                                                          *)
(***************************************************************************)
C1_SuppressedIsNull ==
    Called =>
        (TheCall.obj.types \cap Suppression(TheCall.enc) # {} =>
            /\ TheCall.ret.outcome = "return"
            /\ TheCall.ret.op = "None"
            /\ TheCall.ret.map = << >>
            /\ TheCall.ret.reads = {})

\* a registered type that also is a set, exposes isoformat and has a __dict__
C1_Witness ==
    /\ Called
    /\ TheCall.obj.types = {"set", "str"}
    /\ TheCall.obj.isoformat
    /\ TheCall.obj.hasDict
    /\ "str" \in encoders[TheCall.enc].kw
    /\ TheCall.ret.op = "None"

(***************************************************************************)
(* C2: the checks run in one fixed order (suppression; type/set/frozenset; *)
(* isoformat; foreign integer; foreign float; numeric array; built-in      *)
(* function/method; SimpleNamespace; path; timezone; __dict__; parent      *)
(* failure) and the result is that of the earliest check the value         *)
(* satisfies; the probes of later checks (hasattr isoformat, hasattr       *)
(* __dict__, the class namespace) are not made.                            *)
(***************************************************************************)
C2_FirstMatchWins ==
    Called =>
        LET obj == TheCall.obj
            ret == TheCall.ret
            i   == Earliest(encoders[TheCall.enc].skip_types, obj)
        IN  /\ ret.op = OpOf(i, obj)
            /\ ret.outcome = (IF i = 12 THEN "raise" ELSE "return")
            /\ (N_isoformat \in ret.reads) = (i >= 3)
            /\ (N_dict \in ret.reads) = (i \in {8, 11, 12})
            /\ (N_class \in ret.reads) = (i = 11)

\* a filesystem path with a __dict__: check 9 wins over check 11
C2_Witness ==
    /\ Called
    /\ TheCall.obj.types = {"Path", "UserClass"}
    /\ TheCall.obj.hasDict
    /\ ~TheCall.obj.isoformat
    /\ TheCall.ret.op = "str(obj)"

(***************************************************************************)
(* C3 as stated: with an encoder constructed without extra suppressed      *)
(* types, every class object (instance of type) gives None.                *)
(***************************************************************************)
C3_ClassObjectIsNull ==
    Called =>
        (("type" \in TheCall.obj.types /\ encoders[TheCall.enc].kw = {}) =>
            TheCall.ret.op = "None")

(***************************************************************************)
(* C3 amended: with an encoder constructed without extra suppressed types, *)
(* a class object that is not an instance of a baseline suppressed type is *)
(* not suppressed: default() returns str(obj).                             *)
(***************************************************************************)
C3_ClassObjectIsStr ==
    Called =>
        (( /\ "type" \in TheCall.obj.types
           /\ TheCall.obj.types \cap
                {"classmethod", "staticmethod", "property", "BuiltinFunctionType",
                 "BuiltinMethodType", "Series", "DataFrame", "Index", "partial",
                 "Logger", "RootLogger"} = {}
           /\ encoders[TheCall.enc].kw = {}) =>
            /\ TheCall.ret.outcome = "return"
            /\ TheCall.ret.op = "str(obj)")

C3_Witness ==
    /\ Called
    /\ TheCall.obj.types = {"type"}
    /\ encoders[TheCall.enc].kw = {}
    /\ TheCall.ret.op = "str(obj)"

(***************************************************************************)
(* C6: a value that matches neither the suppression filter nor a coercion  *)
(* rule and exposes no attribute namespace makes default() raise the       *)
(* TypeError that names the value's runtime type; it is never returned as  *)
(* None or any other value.                                                *)
(***************************************************************************)
C6_UnsupportedRaises ==
    Called =>
        ((\A i \in 1..11 : ~Satisfies(i, Suppression(TheCall.enc), TheCall.obj)) =>
            /\ TheCall.ret.outcome = "raise"
            /\ TheCall.ret.op = "TypeError"
            /\ TheCall.ret.errType = TheCall.obj.cls
            /\ TheCall.ret.map = << >>)

C6_Witness ==
    /\ Called
    /\ TheCall.obj.types = {"Collection"}
    /\ ~TheCall.obj.isoformat
    /\ ~TheCall.obj.hasDict
    /\ TheCall.ret.outcome = "raise"
    /\ TheCall.ret.errType = "Collection"

(***************************************************************************)
(* C9: after any sequence of constructions each encoder's suppression set  *)
(* is the built-in baseline united with exactly its own caller-supplied    *)
(* types, the class-level baseline is unchanged, and no encoder's set      *)
(* holds a type supplied only to another encoder.                          *)
(***************************************************************************)
C9_SuppressionSetPerEncoder ==
    /\ class_skip_types = skip_types
    /\ \A e \in 1..Len(encoders) :
          /\ encoders[e].skip_types = skip_types \cup encoders[e].kw
          /\ \A t \in encoders[e].skip_types \ skip_types : t \in encoders[e].kw

\* two encoders given different types
C9_Witness ==
    /\ Len(encoders) = 2
    /\ encoders[1].kw = {"str"}
    /\ encoders[2].kw = {"int"}
    /\ "str" \notin encoders[2].skip_types

(***************************************************************************)
(* C12 as stated: for every non-suppressed value that exposes isoformat    *)
(* the result is None if the value is null-like, else str(obj) if it is a  *)
(* datastore client, database or collection, else obj.isoformat().         *)
(***************************************************************************)
TemporalOp(obj) ==
    IF obj.isnull THEN "None"
    ELSE IF obj.types \cap {"MongoClient", "Database", "Collection"} # {} THEN "str(obj)"
    ELSE "obj.isoformat()"

C12_TemporalOrder ==
    Called =>
        (( /\ TheCall.obj.types \cap Suppression(TheCall.enc) = {}
           /\ TheCall.obj.isoformat) =>
            /\ TheCall.ret.outcome = "return"
            /\ TheCall.ret.op = TemporalOp(TheCall.obj))

(***************************************************************************)
(* C12 amended: for every non-suppressed value that exposes isoformat and  *)
(* is not a class object, set or frozenset, the result is None if the      *)
(* value is null-like, else str(obj) if it is a datastore client, database *)
(* or collection, else obj.isoformat().                                    *)
(***************************************************************************)
C12_TemporalOrderAfterTypeSet ==
    Called =>
        (( /\ TheCall.obj.types \cap Suppression(TheCall.enc) = {}
           /\ TheCall.obj.types \cap {"type", "set", "frozenset"} = {}
           /\ TheCall.obj.isoformat) =>
            /\ TheCall.ret.outcome = "return"
            /\ TheCall.ret.op = TemporalOp(TheCall.obj))

\* a null-like datastore object: None, not str(obj)
C12_Witness ==
    /\ Called
    /\ TheCall.obj.types = {"Collection"}
    /\ TheCall.obj.isoformat
    /\ TheCall.obj.isnull
    /\ TheCall.ret.op = "None"

ClassAttrChoices ==
    {Entry(N_x, IntVal(0)), Entry(N_x, IntVal(5)), Entry(N_x, FuncVal("x")),
     Entry(N_name, StrVal("Bob")), Entry(N_greet, FuncVal("greet")),
     Entry(N_priv, IntVal(5)), Entry(N_dunder, IntVal(5))}

\* properties a class statement declares: one whose getter returns, one
\* whose getter raises
PropertyChoices ==
    {Entry(N_area, PropVal("", 6)), Entry(N_area, PropVal("ValueError", 0))}

\* attributes set on an instance; a property without a setter refuses the
\* assignment, so its name is not among them
InstAttrChoices == ClassAttrChoices \cup {Entry(N_doc, StrVal("doc"))}

\* the ordered namespaces of at most n of the choices, keys distinct
RECURSIVE Namespaces(_, _)
Namespaces(choices, n) ==
    IF n = 0 THEN {<< >>}
    ELSE LET shorter == Namespaces(choices, n - 1)
         IN  shorter \cup
             {Append(d, c) : <<d, c>> \in
                 {q \in shorter \X choices : q[2].key \notin Keys(q[1])}}

\* a class namespace as the class statement leaves it
ClassDict(attrs) ==
    <<Entry(N_module, StrVal("__main__"))>> \o attrs \o <<Entry(N_doc, NoneVal)>>

UserObject(attrs, d) ==
    [cls |-> "UserClass", types |-> {"UserClass"}, isoformat |-> FALSE,
     isnull |-> FALSE, hasDict |-> TRUE, classDict |-> ClassDict(attrs), dict |-> d]

UserObjects ==
    {UserObject(attrs, d) :
        attrs \in Namespaces(ClassAttrChoices \cup PropertyChoices, MaxClassAttrs),
        d \in Namespaces(InstAttrChoices, MaxInstAttrs)}

InitReflect ==
    /\ class_skip_types = skip_types
    /\ encoders = <<[skip_types |-> __init__(skip_types, {}).self, kw |-> {}]>>
    /\ pc = "idle"
    /\ call = << >>
    /\ heap \in {<<o>> : o \in UserObjects}
    /\ frames = << >>
    /\ markers = {}
    /\ outcome = ""
    /\ writer = << >>
    /\ NoClick /\ NoMongo

\* encoders[e].default(heap[a]) runs to its end; the caller keeps the result
HeapDefaultCall(e, a) ==
    /\ pc = "idle"
    /\ Len(call) < MaxCalls
    /\ LET ret == default(encoders[e].skip_types, heap[a])
       IN  /\ call' = Append(call, [enc |-> e, self |-> encoders[e].skip_types,
                                    obj |-> heap[a], ret |-> ret])
           /\ encoders' = [encoders EXCEPT ![e].skip_types = ret.self]
           /\ heap' = [heap EXCEPT ![a] = ret.obj]
    /\ UNCHANGED <<class_skip_types, pc, frames, markers, outcome, writer>>
    /\ UNCHANGED <<click_vars, mongo_vars>>

NextReflect ==
    \E e \in 1..Len(encoders), a \in 1..Len(heap) : HeapDefaultCall(e, a)

SpecReflect == InitReflect /\ [][NextReflect]_vars

\* the name follows the dunder convention
IsDunder(key) ==
    /\ Len(key) >= 2
    /\ key[1] = "_" /\ key[2] = "_"
    /\ key[Len(key) - 1] = "_" /\ key[Len(key)] = "_"

\* what the attribute resolves to: the instance's value, else the class's,
\* a property of the class standing for what its getter returns
Resolved(obj, key) ==
    IF \E i \in 1..Len(obj.dict) : obj.dict[i].key = key
    THEN (CHOOSE en \in {obj.dict[i] : i \in 1..Len(obj.dict)} : en.key = key).value
    ELSE LET mine == (CHOOSE en \in {obj.classDict[i] : i \in 1..Len(obj.classDict)} :
                          en.key = key).value
         IN  IF mine.t = "property" THEN IntVal(mine.n) ELSE mine

ClassNames(obj) == {obj.classDict[i].key : i \in 1..Len(obj.classDict)}
InstNames(obj)  == {obj.dict[i].key : i \in 1..Len(obj.dict)}

Reflected == Called /\ TheCall.ret.op = "a_dict"

Position(d, key) == CHOOSE i \in 1..Len(d) : d[i].key = key

\* key k comes before key l in the merge order
MergeBefore(obj, k, l) ==
    \/ k \in ClassNames(obj) /\ l \notin ClassNames(obj)
    \/ /\ k \in ClassNames(obj) /\ l \in ClassNames(obj)
       /\ Position(obj.classDict, k) < Position(obj.classDict, l)
    \/ /\ k \notin ClassNames(obj) /\ l \notin ClassNames(obj)
       /\ Position(obj.dict, k) < Position(obj.dict, l)

C8_InstanceOverridesClass ==
    Reflected =>
        LET obj == TheCall.obj
            m   == TheCall.ret.map
        IN  /\ \A key \in ClassNames(obj) \cap InstNames(obj) :
                  LET mine == obj.dict[Position(obj.dict, key)].value
                  IN  (~IsDunder(key) /\ mine.t # "function") =>
                          \E i \in 1..Len(m) : m[i].key = key /\ m[i].value = mine
            /\ \A i, j \in 1..Len(m) : m[i].key = m[j].key => i = j
            /\ \A i, j \in 1..Len(m) : i < j => MergeBefore(obj, m[i].key, m[j].key)

\* class x = 0 and name, instance x = 5 and an instance-only __p
C8_Witness ==
    /\ Reflected
    /\ TheCall.obj.classDict =
           ClassDict(<<Entry(N_x, IntVal(0)), Entry(N_name, StrVal("Bob"))>>)
    /\ TheCall.obj.dict = <<Entry(N_priv, IntVal(5)), Entry(N_x, IntVal(5))>>
    /\ TheCall.ret.map =
           <<Entry(N_x, IntVal(5)), Entry(N_name, StrVal("Bob")), Entry(N_priv, IntVal(5))>>


(***************************************************************************)
(* C14: when resolving an attribute in the reflector raises, default()     *)
(* does not swallow the fault and returns no partial mapping: the call     *)
(* ends in the getter's exception, and the exception carries the name of   *)
(* the attribute and the type of the object that holds it.                 *)
(***************************************************************************)
\* the positions of the class namespace whose getter raises
Faults(obj) ==
    {i \in 1..Len(obj.classDict) :
        obj.classDict[i].value.t = "property" /\ obj.classDict[i].value.s # ""}

FirstFault(obj) == CHOOSE i \in Faults(obj) : \A j \in Faults(obj) : i <= j

C14_FaultIsTagged ==
    Called =>
        (Faults(TheCall.obj) # {} =>
            LET fault == TheCall.obj.classDict[FirstFault(TheCall.obj)]
            IN  /\ TheCall.ret.outcome = "raise"
                /\ TheCall.ret.map = << >>
                /\ TheCall.ret.op = fault.value.s
                /\ TheCall.ret.errAttr = fault.key
                /\ TheCall.ret.errType = TheCall.obj.cls)

\* the part of C14 the code keeps: the getter's exception leaves default()
C14_FaultPropagates ==
    Called =>
        (Faults(TheCall.obj) # {} =>
            /\ TheCall.ret.outcome = "raise"
            /\ TheCall.ret.map = << >>
            /\ TheCall.ret.op = TheCall.obj.classDict[FirstFault(TheCall.obj)].value.s)

(***************************************************************************)
(* Repeated default() calls on one encoder over two objects the caller     *)
(* holds and may change between the calls.                                 *)
(***************************************************************************)
CallValues ==
    {UserObject(<<Entry(N_x, IntVal(0)), Entry(N_greet, FuncVal("greet"))>>,
                <<Entry(N_name, StrVal("Bob"))>>),
     Value("SimpleNamespace", "SimpleNamespace", FALSE, FALSE, TRUE),
     Value("str", "str", FALSE, FALSE, FALSE),
     Value("set", "set", FALSE, FALSE, FALSE)}

InitCalls ==
    /\ class_skip_types = skip_types
    /\ encoders \in {<<[skip_types |-> __init__(skip_types, kw).self, kw |-> kw]>> :
                        kw \in SUBSET ExtraTypes}
    /\ pc = "idle"
    /\ call = << >>
    /\ heap \in {<<o1, o2>> : o1 \in CallValues, o2 \in CallValues}
    /\ frames = << >>
    /\ markers = {}
    /\ outcome = ""
    /\ writer = << >>
    /\ NoClick /\ NoMongo

\* the caller sets heap[a].x = 5
SetAttr(a) ==
    /\ pc = "idle"
    /\ heap[a].hasDict
    /\ heap' = [heap EXCEPT ![a].dict = SetItem(@, N_x, IntVal(5))]
    /\ UNCHANGED <<class_skip_types, encoders, pc, call, frames, markers, outcome, writer>>
    /\ UNCHANGED <<click_vars, mongo_vars>>

NextCalls ==
    \/ \E e \in 1..Len(encoders), a \in 1..Len(heap) : HeapDefaultCall(e, a)
    \/ \E a \in 1..Len(heap) : SetAttr(a)

SpecCalls == InitCalls /\ [][NextCalls]_vars

\* what the caller gets from a call
Outcome(c) == <<c.ret.outcome, c.ret.op, c.ret.map, c.ret.errType>>

Addrs == 1..MaxObjs

Node(child) ==
    UserObject(<< >>,
               IF child = 0 THEN <<Entry(N_x, IntVal(5))>>
               ELSE <<Entry(N_x, IntVal(5)), Entry(N_child, RefVal(child))>>)

HeapObjects ==
    {Node(child) : child \in 0..MaxObjs}
        \cup {Value("set", "set", FALSE, FALSE, FALSE),
              Value("Logger", "Logger", FALSE, FALSE, FALSE),
              Value("Collection", "Collection", FALSE, FALSE, FALSE)}

(***************************************************************************)
(* The JSON text, as the sequence of its tokens [t, s, k]: "{" and "}",    *)
(* a key (k its characters), a string (s), a number (k its digits) and     *)
(* null.  The separators between tokens are fixed and left out.            *)
(***************************************************************************)
Tok(t, s, k) == [t |-> t, s |-> s, k |-> k]

Digits == <<"0", "1", "2", "3", "4", "5", "6", "7", "8", "9">>

\* int.__repr__: the decimal digits of a natural number
RECURSIVE _intstr(_)
_intstr(n) ==
    IF n < 10 THEN <<Digits[n + 1]>>
    ELSE _intstr(n \div 10) \o <<Digits[(n % 10) + 1]>>

\* the natural number a sequence of digits denotes
RECURSIVE parse_int(_)
parse_int(k) ==
    IF k = << >> THEN 0
    ELSE 10 * parse_int(SubSeq(k, 1, Len(k) - 1))
             + (CHOOSE d \in 0..9 : Digits[d + 1] = k[Len(k)])

\* what the writer writes for a value it writes itself
Atom(value) ==
    IF value.t = "int" THEN Tok("number", "", _intstr(value.n))
    ELSE IF value.t = "str" THEN Tok("str", value.s, << >>)
    ELSE Tok("null", "", << >>)

\* what the writer writes for a scalar default() returned; the heap holds
\* no object for which default() returns a number
Scalar(ret) ==
    IF ret.op = "None" THEN Tok("null", "", << >>)
    ELSE Tok("str", ret.obj.cls, << >>)

\* a number of the text read as a string
scan_number_as_str(k) == StrVal("number")

\* the scanner on a number of the text
scan_number(k) == IntVal(parse_int(k))

\* json.loads on the tokens: [value, rest]; an object becomes a dict
\* [t |-> "dict", items], a later member replacing an earlier one of the
\* same key
RECURSIVE scan_once(_)
RECURSIVE scan_members(_, _)
scan_once(toks) ==
    LET h == Head(toks)
    IN  IF h.t = "{"
        THEN LET r == scan_members(Tail(toks), << >>)
             IN  [value |-> [t |-> "dict", items |-> r.items], rest |-> r.rest]
        ELSE IF h.t = "number" THEN [value |-> scan_number(h.k), rest |-> Tail(toks)]
        ELSE IF h.t = "str" THEN [value |-> StrVal(h.s), rest |-> Tail(toks)]
        ELSE [value |-> NoneVal, rest |-> Tail(toks)]

scan_members(toks, items) ==
    IF Head(toks).t = "}" THEN [items |-> items, rest |-> Tail(toks)]
    ELSE LET r == scan_once(Tail(toks))
         IN  scan_members(r.rest, SetItem(items, Head(toks).k, r.value))

loads(toks) == scan_once(toks).value

\* the writer on a value made of dict, str, int and None only: it writes
\* every part itself and default() is never called
RECURSIVE _iterencode(_)
RECURSIVE _iterencode_dict(_)
_iterencode(o) ==
    IF o.t = "dict"
    THEN <<Tok("{", "", << >>)>> \o _iterencode_dict(o.items) \o <<Tok("}", "", << >>)>>
    ELSE <<Atom(o)>>

_iterencode_dict(items) ==
    IF items = << >> THEN << >>
    ELSE <<Tok("key", "", Head(items).key)>> \o _iterencode(Head(items).value)
             \o _iterencode_dict(Tail(items))

InitDumps ==
    /\ class_skip_types = skip_types
    /\ encoders = << >>
    /\ pc = "idle"
    /\ call = << >>
    /\ heap \in [Addrs -> HeapObjects]
    /\ frames = << >>
    /\ markers = {}
    /\ outcome = ""
    /\ writer = << >>
    /\ NoClick /\ NoMongo

\* json.dumps(heap[root], cls=ObjectEncoder, check_circular=cc)
Dumps(root, cc) ==
    /\ pc = "idle"
    /\ LET r == __init__(class_skip_types, {})
       IN  /\ writer' = <<[self |-> r.self, check_circular |-> cc, root |-> root,
                            out |-> << >>, again |-> << >>]>>
           /\ class_skip_types' = r.cls
    /\ frames' = <<[addr |-> 0, pending |-> <<RefVal(root)>>, keys |-> <<<< >>>>]>>
    /\ markers' = {}
    /\ pc' = "dumps"
    /\ UNCHANGED <<encoders, call, heap, outcome>>
    /\ UNCHANGED <<click_vars, mongo_vars>>

Top == frames[Len(frames)]

\* the frames with the value at hand taken off the top frame
Consumed == [frames EXCEPT ![Len(frames)].pending = Tail(@),
                          ![Len(frames)].keys = Tail(@)]

Values_of(m) == [i \in 1..Len(m) |-> m[i].value]

Keys_of(m) == [i \in 1..Len(m) |-> m[i].key]

\* the key the writer writes ahead of the value at hand: none at top level
KeyPart == IF Top.addr = 0 THEN << >> ELSE <<Tok("key", "", Head(Top.keys))>>

\* the text with the tokens written at its end
Written(toks) == [writer EXCEPT ![1].out = @ \o toks]

Fail(error) ==
    /\ outcome' = error
    /\ pc' = "done"
    /\ UNCHANGED <<frames, markers, writer>>

\* the writer writes a number, string or None itself
WritePrimitive ==
    /\ pc = "dumps"
    /\ Top.pending # << >>
    /\ Head(Top.pending).t \in {"int", "str", "None"}
    /\ frames' = Consumed
    /\ writer' = Written(KeyPart \o <<Atom(Head(Top.pending))>>)
    /\ UNCHANGED <<class_skip_types, encoders, pc, call, heap, markers, outcome>>
    /\ UNCHANGED <<click_vars, mongo_vars>>

\* the writer meets an object: markers check, then default(), then the walk
\* of what default() returned
EncodeObject ==
    /\ pc = "dumps"
    /\ Top.pending # << >>
    /\ Head(Top.pending).t = "object"
    /\ LET a   == Head(Top.pending).n
           ret == default(writer[1].self, heap[a])
       IN  IF writer[1].check_circular /\ a \in markers
           THEN Fail("ValueError: Circular reference detected")
           ELSE IF Len(frames) > RecursionLimit
           THEN Fail("RecursionError")
           ELSE IF ret.outcome = "raise"
           THEN Fail(ret.op)
           ELSE IF ret.op \in {"vars(obj)", "a_dict"}
           THEN /\ frames' = Append(Consumed, [addr |-> a, pending |-> Values_of(ret.map),
                                               keys |-> Keys_of(ret.map)])
                /\ markers' = IF writer[1].check_circular THEN markers \cup {a} ELSE markers
                /\ writer' = Written(KeyPart \o <<Tok("{", "", << >>)>>)
                /\ UNCHANGED <<pc, outcome>>
           ELSE /\ frames' = Consumed
                /\ writer' = Written(KeyPart \o <<Scalar(ret)>>)
                /\ UNCHANGED <<pc, outcome, markers>>
    /\ UNCHANGED <<class_skip_types, encoders, call, heap>>
    /\ UNCHANGED <<click_vars, mongo_vars>>

\* everything default() returned for the object is written: del markers[id]
LeaveObject ==
    /\ pc = "dumps"
    /\ Top.pending = << >>
    /\ frames' = SubSeq(frames, 1, Len(frames) - 1)
    /\ markers' = markers \ {Top.addr}
    /\ IF Len(frames) = 1
       THEN pc' = "done" /\ outcome' = "ok" /\ UNCHANGED writer
       ELSE /\ writer' = Written(<<Tok("}", "", << >>)>>)
            /\ UNCHANGED <<pc, outcome>>
    /\ UNCHANGED <<class_skip_types, encoders, call, heap>>
    /\ UNCHANGED <<click_vars, mongo_vars>>

\* json.dumps(json.loads(text), cls=ObjectEncoder) on the text of a call
\* that ended well, through an encoder of the same suppression set
DumpsAgain ==
    /\ pc = "done"
    /\ outcome = "ok"
    /\ writer' = [writer EXCEPT ![1].again = _iterencode(loads(writer[1].out))]
    /\ pc' = "redone"
    /\ UNCHANGED <<class_skip_types, encoders, call, heap, frames, markers, outcome>>
    /\ UNCHANGED <<click_vars, mongo_vars>>

NextDumps ==
    \/ \E root \in Addrs, cc \in BOOLEAN : Dumps(root, cc)
    \/ WritePrimitive
    \/ EncodeObject
    \/ LeaveObject
    \/ DumpsAgain

SpecDumps == InitDumps /\ [][NextDumps]_vars

\* the object the child attribute of heap[a] refers to, 0 if none
ChildOf(a) ==
    IF heap[a].hasDict /\ \E i \in 1..Len(heap[a].dict) : heap[a].dict[i].value.t = "object"
    THEN (CHOOSE en \in {heap[a].dict[i] : i \in 1..Len(heap[a].dict)} :
              en.value.t = "object").value.n
    ELSE 0

\* the object k child links below a, 0 when the chain ends before
RECURSIVE Descendant(_, _)
Descendant(a, k) ==
    IF k = 0 \/ a = 0 THEN a ELSE Descendant(ChildOf(a), k - 1)

\* the graph under a is self-referential: some object on the chain is met twice
Cyclic(a) == Descendant(a, MaxObjs) # 0

\* the number of objects nested under a, a included (for an acyclic chain)
Nesting(a) == Cardinality({k \in 0..MaxObjs : Descendant(a, k) # 0})

Done == pc = "done"

(***************************************************************************)
(* C4, in its most lenient reading (any circular-reference error counts,   *)
(* whoever raises it): serializing a self-referential object graph ends in *)
(* a circular-reference error and never in an overflow of the call stack.  *)
(***************************************************************************)
C4_CycleEndsInCycleError ==
    (Done /\ Cyclic(writer[1].root)) =>
        outcome \in {"CyclicReferenceError", "ValueError: Circular reference detected"}

(***************************************************************************)
(* C5: a graph nested deeper than the maximum depth ends the call with a   *)
(* DepthExceededError instead of exhausting the call stack.  The encoder   *)
(* takes no depth option; the only limit in force is the interpreter's     *)
(* recursion limit.                                                        *)
(***************************************************************************)
C5_DeepEndsInDepthError ==
    (Done /\ ~Cyclic(writer[1].root) /\ Nesting(writer[1].root) > RecursionLimit) =>
        outcome = "DepthExceededError"

NoEncoder ==
    /\ class_skip_types = skip_types
    /\ encoders = << >>
    /\ pc = "idle"
    /\ call = << >>
    /\ heap = << >>
    /\ frames = << >>
    /\ markers = {}
    /\ outcome = ""
    /\ writer = << >>

\* the parameter names of a command
OptionNames == {"id", "name", "verbose"}

\* MutuallyExclusiveOption(..., mutually_exclusive=[...])
MutuallyExclusiveOption__init__(name, mutually_exclusive) ==
    [name |-> name, mutually_exclusive |-> mutually_exclusive]

\* what click.Option.handle_parse_result can do: return a value or raise
ParentOutcomes ==
    {[outcome |-> "return", error |-> "", value |-> "parsed", other |-> "", parent |-> TRUE],
     [outcome |-> "raise", error |-> "MissingParameter", value |-> "", other |-> "",
      parent |-> TRUE]}

\* the test without the guard on the option's own name
handle_parse_result_any(self, opts, parent) ==
    IF self.mutually_exclusive \cap opts # {}
    THEN {[outcome |-> "raise", error |-> "UsageError", value |-> "",
           other |-> other_opt, parent |-> FALSE] :
              other_opt \in self.mutually_exclusive \cap opts}
    ELSE {parent}

\* handle_parse_result(self, ctx, opts, args): the results the call can have,
\* one for each member of the set the loop may meet first
handle_parse_result(self, opts, parent) ==
    IF self.name \in opts /\ self.mutually_exclusive \cap opts # {}
    THEN {[outcome |-> "raise", error |-> "UsageError", value |-> "",
           other |-> other_opt, parent |-> FALSE] :
              other_opt \in self.mutually_exclusive \cap opts}
    ELSE {parent}

InitOption ==
    /\ NoEncoder /\ NoMongo
    /\ param = << >>
    /\ result = << >>

\* @click.option(cls=MutuallyExclusiveOption, mutually_exclusive=[...])
OptionConstruct(name, mutually_exclusive) ==
    /\ param = << >>
    /\ param' = <<MutuallyExclusiveOption__init__(name, mutually_exclusive)>>
    /\ UNCHANGED <<encoder_vars, mongo_vars, result>>

\* the command parses a command line and hands the option its result
HandleParseResult(opts, parent) ==
    /\ param # << >>
    /\ \E ret \in handle_parse_result(param[1], opts, parent) :
           result' = <<[opts |-> opts, parent |-> parent, ret |-> ret]>>
    /\ UNCHANGED <<encoder_vars, mongo_vars, param>>

NextOption ==
    \/ \E name \in OptionNames, me \in SUBSET OptionNames : OptionConstruct(name, me)
    \/ \E opts \in SUBSET OptionNames, parent \in ParentOutcomes :
           HandleParseResult(opts, parent)

SpecOption == InitOption /\ [][NextOption]_vars

\* the option's own name and at least one excluded name were both parsed
Conflict ==
    /\ param[1].name \in result[1].opts
    /\ param[1].mutually_exclusive \cap result[1].opts # {}

(***************************************************************************)
(* C17: handle_parse_result raises a usage error, without running the      *)
(* parent's handling, when the option's own name and at least one of its   *)
(* mutually exclusive names are both in the parsed options; in every other *)
(* case it runs the parent's handling and gives back what the parent gave. *)
(***************************************************************************)
C17_ExclusiveOrDelegate ==
    result # << >> =>
        IF Conflict
        THEN /\ result[1].ret.outcome = "raise"
             /\ result[1].ret.error = "UsageError"
             /\ ~result[1].ret.parent
        ELSE result[1].ret = result[1].parent

\* --id and --name both given to the option id that excludes name
C17_Witness ==
    /\ result # << >>
    /\ param[1] = MutuallyExclusiveOption__init__("id", {"name"})
    /\ result[1].opts = {"id", "name"}
    /\ result[1].ret.error = "UsageError"
    /\ result[1].ret.other = "name"

(***************************************************************************)
(* click: TimezoneAwareTimestamp.  param is the parameter type             *)
(* constructed, [default_tz]; result is the last convert() call,           *)
(* [value, ret].  A value is [t, parses, wall, tz]: its type, whether      *)
(* pd.Timestamp() can parse it (strings), the wall-clock time it shows and *)
(* its timezone ("" when naive).                                           *)
(***************************************************************************)
\* timezones pandas knows, and the one of them with daylight saving time
Zones == {"UTC", "Asia/Tokyo", "America/New_York"}

\* wall-clock times: one that exists once in every zone, one that the
\* spring change skips in America/New_York, one that the autumn change
\* repeats there
Walls == {"2023-01-01 12:00:00", "2023-03-12 02:30:00", "2023-11-05 01:30:00"}

\* the timezones of the inputs that carry one; none of them has daylight
\* saving time
OwnZones == {"UTC", "+09:00", "Asia/Seoul"}

TsValue(t, parses, wall, tz) == [t |-> t, parses |-> parses, wall |-> wall, tz |-> tz]

NoTs == TsValue("None", FALSE, "", "")

\* the default_tz arguments: None, the empty string, zone names, a name
\* pandas does not know
DefaultTzChoices ==
    {NoneVal, StrVal("")} \cup {StrVal(z) : z \in Zones \cup {"Mars/Olympus"}}

\* the inputs of convert()
ConvertInputs ==
    {NoTs, TsValue("int", FALSE, "", ""), TsValue("str", FALSE, "", "")}
        \cup {TsValue(t, TRUE, wall, tz) :
                 t \in {"Timestamp", "str", "datetime"}, wall \in Walls,
                 tz \in OwnZones \cup {""}}

\* TimezoneAwareTimestamp(default_tz=...)
TimezoneAwareTimestamp__init__(default_tz) == [default_tz |-> default_tz]

\* what a statement of convert() ends in
Returns(ts) == [outcome |-> "return", error |-> "", ts |-> ts]
Raises(error) == [outcome |-> "raise", error |-> error, ts |-> NoTs]

\* self.fail(...)
fail == Raises("BadParameter")

\* bool(self.default_tz)
truthy(default_tz) == default_tz.t = "str" /\ default_tz.s # ""

\* a localization that leaves the timestamp naive
tz_localize_naive(ts, tz) == Returns(TsValue("Timestamp", TRUE, ts.wall, ""))

\* Timestamp.tz_localize(tz) of a naive timestamp, with the defaults
\* ambiguous='raise' and nonexistent='raise'
tz_localize(ts, tz) ==
    IF tz \notin Zones THEN Raises("UnknownTimeZoneError")
    ELSE IF tz = "America/New_York" /\ ts.wall = "2023-03-12 02:30:00"
    THEN Raises("NonExistentTimeError")
    ELSE IF tz = "America/New_York" /\ ts.wall = "2023-11-05 01:30:00"
    THEN Raises("AmbiguousTimeError")
    ELSE Returns(TsValue("Timestamp", TRUE, ts.wall, tz))

\* pd.Timestamp(value) of a string or a datetime
pd_Timestamp(value) ==
    IF value.parses THEN Returns(TsValue("Timestamp", TRUE, value.wall, value.tz))
    ELSE Raises("ValueError")

\* the statements under `if ts.tz is None` and the return after them
localize_or_fail(self, ts) ==
    IF ts.tz = ""
    THEN IF truthy(self.default_tz) THEN tz_localize(ts, self.default_tz.s) ELSE fail
    ELSE Returns(ts)

\* the body of the try statement of the string branch
try_parse(self, value) ==
    LET ts == pd_Timestamp(value)
    IN  IF ts.outcome = "raise" THEN ts ELSE localize_or_fail(self, ts.ts)

\* convert(self, value, param, ctx)
convert(self, value) ==
    IF value.t = "None" THEN Returns(value)
    ELSE IF value.t = "Timestamp" THEN localize_or_fail(self, value)
    ELSE IF value.t = "str"
    THEN LET r == try_parse(self, value)
         IN  IF r.outcome = "raise" THEN fail ELSE r
    ELSE IF value.t = "datetime" THEN localize_or_fail(self, pd_Timestamp(value).ts)
    ELSE fail

InitConvert ==
    /\ NoEncoder /\ NoMongo
    /\ param = << >>
    /\ result = << >>

\* param_type = TimezoneAwareTimestamp(default_tz=...)
ParamConstruct(default_tz) ==
    /\ param = << >>
    /\ param' = <<TimezoneAwareTimestamp__init__(default_tz)>>
    /\ UNCHANGED <<encoder_vars, mongo_vars, result>>

\* param_type.convert(value, None, None)
Convert(value) ==
    /\ param # << >>
    /\ result' = <<[value |-> value, ret |-> convert(param[1], value)]>>
    /\ UNCHANGED <<encoder_vars, mongo_vars, param>>

NextConvert ==
    \/ \E default_tz \in DefaultTzChoices : ParamConstruct(default_tz)
    \/ \E value \in ConvertInputs : Convert(value)

SpecConvert == InitConvert /\ [][NextConvert]_vars

Converted == result # << >>

\* a Timestamp, parsable string or datetime without a timezone
Naive(value) ==
    /\ value.t \in {"Timestamp", "str", "datetime"}
    /\ value.parses
    /\ value.tz = ""

Aware(value) ==
    /\ value.t \in {"Timestamp", "str", "datetime"}
    /\ value.parses
    /\ value.tz # ""

(***************************************************************************)
(* C15: for every input and every default_tz, convert() returns None       *)
(* (only for the input None), or returns a timezone-aware Timestamp, or    *)
(* fails with click.BadParameter; it never returns a naive timestamp; and  *)
(* with no default_tz a naive Timestamp, string or datetime, an            *)
(* unparsable string and a value of another type fail with BadParameter.   *)
(***************************************************************************)
C15_ThreeOutcomes ==
    Converted =>
        LET value == result[1].value
            ret   == result[1].ret
        IN  /\ \/ ret.outcome = "return" /\ ret.ts.t = "None" /\ value.t = "None"
               \/ ret.outcome = "return" /\ ret.ts.t = "Timestamp" /\ ret.ts.tz # ""
               \/ ret.outcome = "raise" /\ ret.error = "BadParameter"
            /\ (param[1].default_tz.t = "None" /\ value.t # "None" /\ ~Aware(value)) =>
                   (ret.outcome = "raise" /\ ret.error = "BadParameter")

\* the wall-clock time exists exactly once in the zone
ExistsOnce(wall, zone) ==
    zone = "America/New_York" => wall = "2023-01-01 12:00:00"

(***************************************************************************)
(* C16 as stated: with default_tz configured (a zone name pandas knows),   *)
(* convert() localizes every naive input (Timestamp, parsable string or    *)
(* datetime) to exactly default_tz, and returns every timezone-aware input *)
(* with its own timezone.                                                  *)
(***************************************************************************)
C16_LocalizesEveryNaive ==
    (Converted /\ param[1].default_tz.t = "str" /\ param[1].default_tz.s \in Zones) =>
        LET value == result[1].value
            ret   == result[1].ret
        IN  /\ Naive(value) =>
                   /\ ret.outcome = "return"
                   /\ ret.ts = TsValue("Timestamp", TRUE, value.wall, param[1].default_tz.s)
            /\ Aware(value) =>
                   /\ ret.outcome = "return"
                   /\ ret.ts = TsValue("Timestamp", TRUE, value.wall, value.tz)

(***************************************************************************)
(* C16 amended: with default_tz set to a zone name pandas knows, convert() *)
(* localizes to exactly default_tz every naive input (Timestamp, parsable  *)
(* string or datetime) whose wall-clock time exists exactly once in        *)
(* default_tz, and returns every timezone-aware input with its own         *)
(* timezone.                                                               *)
(***************************************************************************)
C16_LocalizesExistingNaive ==
    (Converted /\ param[1].default_tz.t = "str" /\ param[1].default_tz.s \in Zones) =>
        LET value == result[1].value
            ret   == result[1].ret
        IN  /\ (Naive(value) /\ ExistsOnce(value.wall, param[1].default_tz.s)) =>
                   /\ ret.outcome = "return"
                   /\ ret.ts = TsValue("Timestamp", TRUE, value.wall, param[1].default_tz.s)
            /\ Aware(value) =>
                   /\ ret.outcome = "return"
                   /\ ret.ts = TsValue("Timestamp", TRUE, value.wall, value.tz)

\* a naive string under default_tz='Asia/Tokyo' comes back in Asia/Tokyo
C16_Witness ==
    /\ Converted
    /\ param[1].default_tz = StrVal("Asia/Tokyo")
    /\ result[1].value = TsValue("str", TRUE, "2023-01-01 12:00:00", "")
    /\ result[1].ret.outcome = "return"
    /\ result[1].ret.ts.tz = "Asia/Tokyo"

(***************************************************************************)
(* pymongo: MongoHandler.  collection is the sequence of the documents of  *)
(* the collection the handlers share, in insertion order: log documents    *)
(* and, once a count was taken, the document whose _id is 'log_counter'.   *)
(* handlers holds, for each handler, enable_count and where its emit() is: *)
(* "idle", or "inserted" between insert_one and _update_count.  audit      *)
(* counts what happened: records inserted, emits whose build or insert     *)
(* failed, handleError calls, counter updates that failed, exceptions that *)
(* left emit(), documents clear_logs deleted, whether any storage          *)
(* operation failed; and it keeps the reply of the last query.             *)
(***************************************************************************)
LogDoc(level, n) ==
    [_id |-> "ObjectId", n |-> n, level |-> level, count |-> 0, timestamp |-> n]

CounterDoc(count) ==
    [_id |-> "log_counter", n |-> 0, level |-> "", count |-> count, timestamp |-> 0]

\* the levels of the records logged, and the level arguments of get_logs
Levels == {"INFO", "ERROR"}
LevelArgs == {"", "error"}

\* str.upper
upper(level) ==
    IF level = "error" THEN "ERROR" ELSE IF level = "info" THEN "INFO" ELSE level

\* {'_id': {'$ne': 'log_counter'}}
NotCounter(doc) == doc._id # "log_counter"

\* collection.insert_one(log_entry)
insert_one(coll, doc) == Append(coll, doc)

\* collection.update_one({'_id': 'log_counter'}, {'$inc': {'count': 1}, ...},
\* upsert=True): one atomic step of the server
update_one(coll) ==
    IF \E i \in 1..Len(coll) : ~NotCounter(coll[i])
    THEN [i \in 1..Len(coll) |->
             IF NotCounter(coll[i]) THEN coll[i] ELSE [coll[i] EXCEPT !.count = @ + 1]]
    ELSE Append(coll, CounterDoc(1))

\* the except clause of emit(): it prints and calls self.handleError(record),
\* which reports on stderr and returns; no exception leaves it
handleError == [handled |-> 1, propagated |-> 0]

\* a counter update that lets the exception of update_one out
_update_count_raises(coll, fault) ==
    IF fault THEN [collection |-> coll, raised |-> TRUE]
    ELSE [collection |-> update_one(coll), raised |-> FALSE]

\* _update_count(self): [collection, raised]; its except clause prints and
\* goes on
_update_count(coll, fault) ==
    IF fault THEN [collection |-> coll, raised |-> FALSE]
    ELSE [collection |-> update_one(coll), raised |-> FALSE]

\* get_log_count(self)
get_log_count(coll, fault) ==
    IF fault THEN 0
    ELSE IF \E i \in 1..Len(coll) : ~NotCounter(coll[i])
    THEN (CHOOSE doc \in {coll[i] : i \in 1..Len(coll)} : ~NotCounter(doc)).count
    ELSE 0

\* cursor.sort('timestamp', sort_order)
RECURSIVE sort(_, _)
sort(docs, sort_order) ==
    IF docs = << >> THEN << >>
    ELSE LET first == CHOOSE i \in 1..Len(docs) :
                          \A j \in 1..Len(docs) :
                              IF sort_order = 1
                              THEN docs[i].timestamp <= docs[j].timestamp
                              ELSE docs[i].timestamp >= docs[j].timestamp
         IN  <<docs[first]>> \o
                 sort(SubSeq(docs, 1, first - 1) \o SubSeq(docs, first + 1, Len(docs)),
                      sort_order)

\* cursor.limit(limit): a limit of 0 is no limit
limit(docs, n) ==
    IF n = 0 \/ n >= Len(docs) THEN docs ELSE SubSeq(docs, 1, n)

\* get_logs(self, level, limit, sort_desc)
get_logs(coll, level, n, sort_desc, fault) ==
    IF fault THEN << >>
    ELSE LET query(doc) == NotCounter(doc) /\ (level # "" => doc.level = upper(level))
             sort_order == IF sort_desc THEN 0 - 1 ELSE 1
         IN  limit(sort(SelectSeq(coll, query), sort_order), n)

\* a deletion with the empty filter
clear_logs_all(coll, fault) ==
    IF fault THEN [collection |-> coll, deleted_count |-> 0]
    ELSE [collection |-> << >>, deleted_count |-> Len(coll)]

\* clear_logs(self): [collection, deleted_count]
clear_logs(coll, fault) ==
    IF fault THEN [collection |-> coll, deleted_count |-> 0]
    ELSE [collection |-> SelectSeq(coll, LAMBDA doc : ~NotCounter(doc)),
          deleted_count |-> Len(SelectSeq(coll, NotCounter))]

Reply(op, n, docs) == [op |-> op, n |-> n, docs |-> docs]

InitMongo ==
    /\ NoEncoder /\ NoClick
    /\ collection = << >>
    /\ handlers = << >>
    /\ audit = [inserted |-> 0, failed |-> 0, handled |-> 0, swallowed |-> 0,
                propagated |-> 0, deleted |-> 0, fault |-> FALSE, reply |-> << >>]

\* handler = MongoHandler(..., enable_count=...)
HandlerConstruct(enable_count) ==
    /\ Len(handlers) < MaxHandlers
    /\ handlers' = Append(handlers, [pc |-> "idle", enable_count |-> enable_count])
    /\ UNCHANGED <<encoder_vars, click_vars, collection, audit>>

\* emit(record) up to and including insert_one; fault names the call that
\* raises, if any; when the entry cannot be built or inserted the except
\* clause prints and calls handleError, which
\* does not raise
EmitInsert(h, level, fault) ==
    /\ handlers[h].pc = "idle"
    /\ audit.inserted + audit.failed < MaxEmits
    /\ IF fault \in {"_create_log_entry", "insert_one"}
       THEN /\ audit' = [audit EXCEPT !.failed = @ + 1,
                                      !.handled = @ + handleError.handled,
                                      !.propagated = @ + handleError.propagated,
                                      !.fault = @ \/ (fault = "insert_one"),
                                      !.reply = << >>]
            /\ UNCHANGED <<collection, handlers>>
       ELSE /\ collection' = insert_one(collection, LogDoc(level, audit.inserted + 1))
            /\ audit' = [audit EXCEPT !.inserted = @ + 1, !.reply = << >>]
            /\ handlers' = [handlers EXCEPT
                               ![h].pc = IF handlers[h].enable_count THEN "inserted" ELSE "idle"]
    /\ UNCHANGED <<encoder_vars, click_vars>>

\* the rest of emit(record): self._update_count(), and the except clause
\* of emit() should _update_count raise
EmitUpdateCount(h, fault) ==
    /\ handlers[h].pc = "inserted"
    /\ LET r == _update_count(collection, fault)
       IN  /\ collection' = r.collection
           /\ audit' = [audit EXCEPT
                           !.swallowed = IF fault /\ ~r.raised THEN @ + 1 ELSE @,
                           !.handled = IF r.raised THEN @ + handleError.handled ELSE @,
                           !.propagated = IF r.raised THEN @ + handleError.propagated ELSE @,
                           !.fault = @ \/ fault,
                           !.reply = << >>]
    /\ handlers' = [handlers EXCEPT ![h].pc = "idle"]
    /\ UNCHANGED <<encoder_vars, click_vars>>

\* handler.get_logs(level=..., limit=..., sort_desc=...)
GetLogs(h, level, n, sort_desc, fault) ==
    /\ handlers[h].pc = "idle"
    /\ audit.reply = << >>
    /\ audit' = [audit EXCEPT
                    !.reply = <<Reply("get_logs", n,
                                      get_logs(collection, level, n, sort_desc, fault))>>,
                    !.fault = @ \/ fault]
    /\ UNCHANGED <<encoder_vars, click_vars, collection, handlers>>

\* handler.clear_logs()
ClearLogs(h, fault) ==
    /\ handlers[h].pc = "idle"
    /\ audit.reply = << >>
    /\ LET r == clear_logs(collection, fault)
       IN  /\ collection' = r.collection
           /\ audit' = [audit EXCEPT
                           !.reply = <<Reply("clear_logs", r.deleted_count, << >>)>>,
                           !.deleted = @ + r.deleted_count,
                           !.fault = @ \/ fault]
    /\ UNCHANGED <<encoder_vars, click_vars, handlers>>

\* handler.get_log_count()
GetLogCount(h, fault) ==
    /\ handlers[h].pc = "idle"
    /\ audit.reply = << >>
    /\ audit' = [audit EXCEPT
                    !.reply = <<Reply("get_log_count", get_log_count(collection, fault), << >>)>>,
                    !.fault = @ \/ fault]
    /\ UNCHANGED <<encoder_vars, click_vars, collection, handlers>>

\* the caller takes the reply of its query
TakeReply ==
    /\ audit.reply # << >>
    /\ audit' = [audit EXCEPT !.reply = << >>]
    /\ UNCHANGED <<encoder_vars, click_vars, collection, handlers>>

NextMongo ==
    \/ \E enable_count \in BOOLEAN : HandlerConstruct(enable_count)
    \/ \E h \in 1..Len(handlers), level \in Levels,
          fault \in {"", "_create_log_entry", "insert_one"} :
           EmitInsert(h, level, fault)
    \/ \E h \in 1..Len(handlers), fault \in BOOLEAN : EmitUpdateCount(h, fault)
    \/ \E h \in 1..Len(handlers), level \in LevelArgs, n \in 0..MaxLimit,
          sort_desc \in BOOLEAN, fault \in BOOLEAN :
           GetLogs(h, level, n, sort_desc, fault)
    \/ \E h \in 1..Len(handlers), fault \in BOOLEAN : ClearLogs(h, fault)
    \/ \E h \in 1..Len(handlers), fault \in BOOLEAN : GetLogCount(h, fault)
    \/ TakeReply

SpecMongo == InitMongo /\ [][NextMongo]_vars

\* no emit() is between its insert and its count
Quiescent == \A h \in 1..Len(handlers) : handlers[h].pc = "idle"

AllCounting == \A h \in 1..Len(handlers) : handlers[h].enable_count

\* the count the counter document shows, 0 when there is none
Counter ==
    IF \E i \in 1..Len(collection) : collection[i]._id = "log_counter"
    THEN (CHOOSE doc \in {collection[i] : i \in 1..Len(collection)} :
              doc._id = "log_counter").count
    ELSE 0

LogDocs == {i \in 1..Len(collection) : collection[i]._id # "log_counter"}

Replied(op) == audit.reply # << >> /\ audit.reply[1].op = op

\* what C18 says of the counter and of clear_logs
CounterCountsInserts ==
    /\ (Quiescent /\ AllCounting /\ ~audit.fault) => Counter = audit.inserted
    /\ (Replied("clear_logs") /\ ~audit.fault) =>
           /\ LogDocs = {}
           /\ (audit.inserted > 0 /\ Quiescent /\ AllCounting) => Len(collection) = 1

NoCounterInReply ==
    Replied("get_logs") =>
        \A i \in 1..Len(audit.reply[1].docs) : audit.reply[1].docs[i]._id # "log_counter"

(***************************************************************************)
(* C18 as stated: on handlers that share one collection, with enable_count *)
(* on and no storage fault, after any sequence of emit, clear_logs,        *)
(* get_logs and get_log_count the count of 'log_counter' is the number of  *)
(* records ever inserted; clear_logs deletes every log document and leaves *)
(* the counter; get_logs never returns the counter document and never      *)
(* more than `limit` documents.                                            *)
(***************************************************************************)
C18_CounterAndLimit ==
    /\ CounterCountsInserts
    /\ NoCounterInReply
    /\ Replied("get_logs") => Len(audit.reply[1].docs) <= audit.reply[1].n

(***************************************************************************)
(* C18 amended: as above, but get_logs returns at most `limit` documents   *)
(* for a limit of 1 or more; a limit of 0 is no limit.                     *)
(***************************************************************************)
C18_CounterAndPositiveLimit ==
    /\ CounterCountsInserts
    /\ NoCounterInReply
    /\ (Replied("get_logs") /\ audit.reply[1].n >= 1) =>
           Len(audit.reply[1].docs) <= audit.reply[1].n

\* two records logged, the log cleared, a third logged: the count is 3 and
\* get_logs(limit=1) on it gives one document
C18_Witness ==
    /\ Quiescent /\ AllCounting /\ ~audit.fault
    /\ audit.inserted = 3
    /\ audit.deleted = 2
    /\ Counter = 3
    /\ Replied("get_logs")
    /\ audit.reply[1].n = 1
    /\ Len(audit.reply[1].docs) = 1

(***************************************************************************)
(* C19: emit() never lets a storage exception reach the logging caller;    *)
(* when building or inserting the entry fails the counter is not           *)
(* incremented and handleError is called; when the insert succeeds and the *)
(* counter update fails the failure is swallowed and the log stays stored; *)
(* so the counter is at most the number of records ever inserted.          *)
(***************************************************************************)
C19_EmitNeverRaises ==
    /\ audit.propagated = 0
    /\ audit.handled = audit.failed
    /\ Cardinality(LogDocs) = audit.inserted - audit.deleted
    /\ Counter <= audit.inserted
    /\ Counter + audit.swallowed <= audit.inserted

\* one emit failed at the insert, one lost its count, one went through
C19_Witness ==
    /\ Quiescent
    /\ audit.failed = 1
    /\ audit.handled = 1
    /\ audit.swallowed = 1
    /\ audit.inserted = 2
    /\ Counter = 1
    /\ Cardinality(LogDocs) = 2

====
